---- MODULE Spec2Model ----
(***************************************************************************)
(* A model of src/red_lines.py: the DetroitDistrict record, and the        *)
(* RedLines catalog with createDistricts, generateRandPoint, fetchCensus   *)
(* and fetchIncome.                                                        *)
(*                                                                         *)
(* Conventions.                                                            *)
(*  - An optional attribute (Python None or a value) is a sequence of      *)
(*    length 0 (None) or 1 (the value).                                    *)
(*  - A JSON object is a function whose domain is its set of keys; a       *)
(*    missing key is a key outside the domain.                             *)
(*  - An element of a coordinate list is tagged: a JSON list of numbers    *)
(*    is [t |-> "list", v |-> <<...>>], a bare number [t |-> "num", ...].  *)
(*  - Longitudes and latitudes are integers: one unit is a third of the    *)
(*    grid step (0.004 degrees), measured from the grid's origin.          *)
(***************************************************************************)
EXTENDS Integers, Sequences, FiniteSets, TLC

VARIABLES
    districts,  \* RedLines.districts: the list of DetroitDistrict records
    rng,        \* state of the module-level generator of `random`
    seeded,     \* TRUE while no number was drawn since random.seed(17)
    pc,         \* "idle", or "fetchCensus" while its loop is running
    i,          \* fetchCensus: index of the district the loop is at
    last,       \* the call made last: its name, its outcome, its response
    prevRun     \* what an earlier run of the program sampled (SpecRerun)

vars == <<districts, rng, seeded, pc, i, last, prevRun>>

---------------------------------------------------------------------------
(* Bounds of the model *)

MaxDistricts == 2   \* length of the catalog's list
MaxFeatures == 2    \* features in one input file
MaxRows == 2        \* data rows in one income response
RngMod == 4         \* number of generator states

---------------------------------------------------------------------------
(* Optional values *)

None == <<>>
Some(v) == <<v>>
IsSet(o) == o # None
Val(o) == o[1]

L(x, y) == [t |-> "list", v |-> <<x, y>>]
N(x) == [t |-> "num", v |-> <<x>>]

---------------------------------------------------------------------------
(* DetroitDistrict *)

\* A mapping whose default is the colour of grade D
color_map_wrong(holcGrade) ==
    CASE holcGrade = "A" -> "darkgreen"
      [] holcGrade = "B" -> "cornflowerblue"
      [] holcGrade = "C" -> "gold"
      [] OTHER -> "maroon"

\* color_map.get(holcGrade, 'grey')
color_map(holcGrade) ==
    CASE holcGrade = "A" -> "darkgreen"
      [] holcGrade = "B" -> "cornflowerblue"
      [] holcGrade = "C" -> "gold"
      [] holcGrade = "D" -> "maroon"
      [] OTHER -> "grey"

\* DetroitDistrict(coordinates, holcGrade, id, description) with the
\* remaining parameters at their defaults (None)
DetroitDistrict(coordinates, holcGrade, id, description) ==
    [ coordinates |-> coordinates,
      holcGrade   |-> holcGrade,
      id          |-> id,
      description |-> description,
      randomLat   |-> None,
      randomLong  |-> None,
      medIncome   |-> None,
      censusTract |-> None,
      holcColor   |-> color_map(holcGrade) ]

---------------------------------------------------------------------------
(* Input files *)

\* A boundary ring with two grid points strictly inside, (3,3) and (6,3);
\* closed as GeoJSON closes it, by repeating the first position.
RingRect == << L(2, 2), L(7, 2), L(7, 4), L(2, 4), L(2, 2) >>
\* A triangle with grid points on its boundary and none strictly inside.
RingTriangle == << L(0, 0), L(0, 6), L(6, 0) >>
\* A ring that lies between the grid lines.
RingTiny == << L(1, 1), L(2, 1), L(2, 2), L(1, 2) >>
\* An empty ring.
RingEmpty == << >>

\* geometry.coordinates of a MultiPolygon: polygons, each a list of rings
MultiPolygon(ring) == << << ring >> >>
\* geometry.coordinates of a Polygon: a list of rings; [0][0] is a position
Polygon(ring) == << << <<N(ring[1].v[1]), N(ring[1].v[2])>> >> >>

Feature(grade, hid, desc, coords) ==
    [ properties |-> [ holc_grade |-> grade, holc_id |-> hid,
                       area_description_data |-> ("8" :> desc) ],
      geometry   |-> [ coordinates |-> coords ] ]

WellFormed ==
    { Feature("A", "A1", "best", MultiPolygon(RingRect)),
      Feature("B", "B2", "still desirable", MultiPolygon(RingTriangle)),
      Feature("C", "C3", "declining", MultiPolygon(RingTiny)),
      Feature("D", "D4", "hazardous", Polygon(RingRect)),
      Feature("E", "E5", "", MultiPolygon(RingEmpty)) }

\* Features that lack one required key each
Malformed ==
    { [ properties |-> [ holc_id |-> "A1",
                         area_description_data |-> ("8" :> "best") ],
        geometry   |-> [ coordinates |-> MultiPolygon(RingRect) ] ],
      [ properties |-> [ holc_grade |-> "B",
                         area_description_data |-> ("8" :> "still desirable") ],
        geometry   |-> [ coordinates |-> MultiPolygon(RingTriangle) ] ],
      [ properties |-> [ holc_grade |-> "C", holc_id |-> "C3",
                         area_description_data |-> ("1" :> "declining") ],
        geometry   |-> [ coordinates |-> MultiPolygon(RingTiny) ] ],
      [ properties |-> [ holc_grade |-> "D", holc_id |-> "D4",
                         area_description_data |-> ("8" :> "hazardous") ],
        geometry   |-> [ type |-> "MultiPolygon" ] ] }

Features == WellFormed \cup Malformed

SeqsUpTo(S, n) == UNION { [1..k -> S] : k \in 0..n }

\* data['features'] of the files the model reads
Files == SeqsUpTo(Features, MaxFeatures) \ { <<>> }

---------------------------------------------------------------------------
(* createDistricts *)

HasKey(obj, key) == key \in DOMAIN obj

\* The keys one pass of the loop body reads, lines 133-139
HasRequiredKeys(district_data) ==
    /\ HasKey(district_data, "properties")
    /\ HasKey(district_data, "geometry")
    /\ HasKey(district_data.geometry, "coordinates")
    /\ HasKey(district_data.properties, "holc_grade")
    /\ HasKey(district_data.properties, "holc_id")
    /\ HasKey(district_data.properties, "area_description_data")
    /\ HasKey(district_data.properties.area_description_data, "8")

\* What a lenient loader would read for a key that is missing
GetOr(obj, key, default) == IF HasKey(obj, key) THEN obj[key] ELSE default

\* A loop body that reads every key with a default
ParseFeatureLenient(district_data) ==
    [ err |-> "none",
      district |->
        DetroitDistrict(
            IF HasKey(district_data.geometry, "coordinates")
                THEN district_data.geometry.coordinates[1][1] ELSE <<>>,
            GetOr(district_data.properties, "holc_grade", "None"),
            GetOr(district_data.properties, "holc_id", "None"),
            GetOr(GetOr(district_data.properties, "area_description_data",
                        ("8" :> "None")), "8", "None")) ]

\* One pass of the loop body, lines 133-140: the record to append, or the
\* KeyError of the first subscript that finds no key
ParseFeature(district_data) ==
    IF HasRequiredKeys(district_data)
    THEN [ err |-> "none",
           district |->
             DetroitDistrict(
                 district_data.geometry.coordinates[1][1],
                 district_data.properties.holc_grade,
                 district_data.properties.holc_id,
                 district_data.properties.area_description_data["8"]) ]
    ELSE [ err |-> "KeyError" ]

\* The loop of lines 132-141 from feature k on: the list it leaves and the
\* exception that ended it, if any
RECURSIVE LoadFrom(_, _, _)
LoadFrom(ds, features, k) ==
    IF k > Len(features) THEN [ districts |-> ds, err |-> "none" ]
    ELSE LET r == ParseFeature(features[k])
         IN  IF r.err # "none" THEN [ districts |-> ds, err |-> r.err ]
             ELSE LoadFrom(Append(ds, r.district), features, k + 1)

NoResponse == [ status_code |-> 0 ]

\* The record of a call: its name, the exception it raised, the response it
\* handled last, the requests it issued, whether the generator was freshly
\* seeded when it began, and its argument
Call(op, err, response, n, fromSeed, arg) ==
    [ op |-> op, err |-> err, response |-> response, n |-> n,
      fromSeed |-> fromSeed, arg |-> arg ]

createDistricts(features) ==
    /\ pc = "idle"
    /\ Len(districts) + Len(features) <= MaxDistricts
    /\ LET r == LoadFrom(districts, features, 1)
       IN  /\ districts' = r.districts
           /\ last' = Call("createDistricts", r.err, NoResponse, 0, FALSE, features)
    /\ UNCHANGED <<rng, seeded, pc, i, prevRun>>

---------------------------------------------------------------------------
(* generateRandPoint *)

\* np.arange(-83.5, -82.8, 0.004) and np.arange(42.1, 42.6, 0.004), in
\* model units and cut to the part of the study area the rings lie in
xgrid == << 0, 3, 6 >>
ygrid == << 0, 3, 6 >>

\* np.vstack((xmesh.flatten(), ymesh.flatten())).T: row k of the mesh holds
\* ygrid[k], and within the row the points run along xgrid
points ==
    [ k \in 1..(Len(xgrid) * Len(ygrid)) |->
        << xgrid[((k - 1) % Len(xgrid)) + 1], ygrid[((k - 1) \div Len(xgrid)) + 1] >> ]

\* isinstance(coordinates, list) and all(isinstance(coord, list) and
\* len(coord) == 2 for coord in coordinates)
IsListOfPairs(coordinates) ==
    \A k \in 1..Len(coordinates) :
        coordinates[k].t = "list" /\ Len(coordinates[k].v) = 2

\* The vertex after vertex k of a path that is treated as closed
NextVertex(coordinates, k) ==
    coordinates[(k % Len(coordinates)) + 1].v

\* The crossing test of one polygon edge (vtx0,vty0)-(vtx1,vty1) against
\* the ray from (tx,ty) towards +X: whether the edge flips the inside flag
Crosses(v0, v1, p) ==
    LET vtx0 == v0[1]  vty0 == v0[2]
        vtx1 == v1[1]  vty1 == v1[2]
        tx == p[1]     ty == p[2]
        yflag0 == (vty0 >= ty)
        yflag1 == (vty1 >= ty)
    IN  /\ yflag0 # yflag1
        /\ (((vty1 - ty) * (vtx0 - vtx1) >= (vtx1 - tx) * (vty0 - vty1)) = yflag1)

\* A test that also takes every point of the ring's bounding box
contains_point_bbox(coordinates, p) ==
    /\ \E k \in 1..Len(coordinates) : coordinates[k].v[1] <= p[1]
    /\ \E k \in 1..Len(coordinates) : coordinates[k].v[1] >= p[1]
    /\ \E k \in 1..Len(coordinates) : coordinates[k].v[2] <= p[2]
    /\ \E k \in 1..Len(coordinates) : coordinates[k].v[2] >= p[2]

\* Path(coordinates).contains_points(points) with radius 0, for one point,
\* as the library computes it: the inside flag is flipped once per crossing
\* edge, the closing edge included.  A point on the boundary is inside or
\* not as the comparisons of Crosses fall.
contains_point(coordinates, p) ==
    Cardinality({ k \in 1..Len(coordinates) :
        Crosses(coordinates[k].v, NextVertex(coordinates, k), p) }) % 2 = 1

\* points[inside_grid]
valid_points(coordinates) ==
    SelectSeq(points, LAMBDA p : contains_point(coordinates, p))

Seed == 17

\* An import that leaves the generator as it was
random_seed_kept(state, a) == state

\* random.seed(a): the generator's state after seeding, whatever it was
random_seed(state, a) == a % RngMod

\* The generator's step, and the index random.choice draws below n from a
\* state: functions of the state alone.  The generator of the library is
\* replaced by one with RngMod states.
rng_next(state) == (state + 1) % RngMod
randbelow(state, n) == (3 * state + 1) % n

\* random.choice(seq): the element drawn and the generator's next state
random_choice(state, seq) ==
    [ value |-> seq[randbelow(state, Len(seq)) + 1], state |-> rng_next(state) ]

\* The loop body of lines 183-190 for one district: the district as the
\* pass leaves it, the generator's state, the numbers drawn, the exception.
\* An empty list passes the check of line 183 (all() of nothing), and
\* Path([]) raises ValueError: its vertices are not an N x 2 array.
SampleDistrict(district, state) ==
    IF ~IsListOfPairs(district.coordinates)
    THEN [ district |-> district, state |-> state, draws |-> 0, err |-> "none" ]
    ELSE IF Len(district.coordinates) = 0
    THEN [ district |-> district, state |-> state, draws |-> 0, err |-> "ValueError" ]
    ELSE LET valid == valid_points(district.coordinates)
         IN  IF Len(valid) > 0
             THEN LET c == random_choice(state, valid)
                  IN  [ district |-> [ district EXCEPT
                                        !.randomLong = Some(c.value[1]),
                                        !.randomLat = Some(c.value[2]) ],
                        state |-> c.state, draws |-> 1, err |-> "none" ]
             ELSE [ district |-> district, state |-> state, draws |-> 0,
                    err |-> "none" ]

\* The loop of lines 182-190 from district k on
RECURSIVE SampleFrom(_, _, _, _)
SampleFrom(ds, state, draws, k) ==
    IF k > Len(ds)
    THEN [ districts |-> ds, state |-> state, draws |-> draws, err |-> "none" ]
    ELSE LET r == SampleDistrict(ds[k], state)
         IN  IF r.err # "none"
             THEN [ districts |-> ds, state |-> state, draws |-> draws,
                    err |-> r.err ]
             ELSE SampleFrom([ ds EXCEPT ![k] = r.district ], r.state,
                             draws + r.draws, k + 1)

generateRandPoint ==
    /\ pc = "idle"
    /\ LET r == SampleFrom(districts, rng, 0, 1)
       IN  /\ districts' = r.districts
           /\ rng' = r.state
           /\ seeded' = (seeded /\ r.draws = 0)
           /\ last' = Call("generateRandPoint", r.err, NoResponse, 0, seeded, <<>>)
    /\ UNCHANGED <<pc, i, prevRun>>

---------------------------------------------------------------------------
(* fetchCensus *)

\* s[a:b] of Python, for 0 <= a <= b
PySlice(s, a, b) ==
    IF a >= Len(s) THEN SubSeq(s, 1, 0)
    ELSE SubSeq(s, a + 1, IF b < Len(s) THEN b ELSE Len(s))

\* Bodies the area lookup answers with: block_fips is the state (2 digits),
\* the county (3), the tract (6) and the block (4)
CensusBodies ==
    { [ results |-> << [ block_fips |-> "261635001001000" ] >> ],
      [ results |-> << [ block_fips |-> "261635002002001" ] >> ],
      [ results |-> << >> ],
      [ status |-> "error" ] }

CensusResponses ==
    { [ status_code |-> 200, json |-> b ] : b \in CensusBodies }
        \cup { [ status_code |-> 500, json |-> [ status |-> "error" ] ] }

\* A guard that looks every district up
NeedsLookupAlways(district) == TRUE

\* The guard of line 225
NeedsLookup(district) ==
    IsSet(district.randomLat) /\ IsSet(district.randomLong)

\* A handler that builds the district anew, its income at the default
ApplyCensusRebuilt(district, response) ==
    IF response.status_code = 200
    THEN LET data == response.json
         IN  IF HasKey(data, "results") /\ Len(data.results) > 0
             THEN [ district EXCEPT
                        !.censusTract =
                            Some(PySlice(data.results[1].block_fips, 2, 11)),
                        !.medIncome = None ]
             ELSE district
    ELSE district

\* Lines 233-236: the district after its response was handled
ApplyCensus(district, response) ==
    IF response.status_code = 200
    THEN LET data == response.json
         IN  IF HasKey(data, "results") /\ Len(data.results) > 0
             THEN [ district EXCEPT !.censusTract =
                        Some(PySlice(data.results[1].block_fips, 2, 11)) ]
             ELSE district
    ELSE district

\* The call starts: the loop is at the first district
fetchCensusCall ==
    /\ pc = "idle"
    /\ pc' = "fetchCensus"
    /\ i' = 1
    /\ last' = Call("fetchCensus", "none", NoResponse, 0, FALSE, <<>>)
    /\ UNCHANGED <<districts, rng, seeded, prevRun>>

\* One pass of the loop body, lines 225-236, with a request
fetchCensusRequest(response) ==
    /\ pc = "fetchCensus"
    /\ i <= Len(districts)
    /\ NeedsLookup(districts[i])
    /\ districts' = [ districts EXCEPT ![i] = ApplyCensus(districts[i], response) ]
    /\ i' = i + 1
    /\ last' = Call("fetchCensus", "none", response, last.n + 1, FALSE, <<>>)
    /\ UNCHANGED <<rng, seeded, pc, prevRun>>

\* One pass of the loop body for a district without a sampled point
fetchCensusSkip ==
    /\ pc = "fetchCensus"
    /\ i <= Len(districts)
    /\ ~NeedsLookup(districts[i])
    /\ i' = i + 1
    /\ UNCHANGED <<districts, rng, seeded, pc, last, prevRun>>

\* The loop is over: the call returns
fetchCensusReturn ==
    /\ pc = "fetchCensus"
    /\ i > Len(districts)
    /\ pc' = "idle"
    /\ i' = 0
    /\ UNCHANGED <<districts, rng, seeded, last, prevRun>>

---------------------------------------------------------------------------
(* fetchIncome *)

Digit(c) ==
    CASE c = "0" -> 0 [] c = "1" -> 1 [] c = "2" -> 2 [] c = "3" -> 3
      [] c = "4" -> 4 [] c = "5" -> 5 [] c = "6" -> 6 [] c = "7" -> 7
      [] c = "8" -> 8 [] c = "9" -> 9

RECURSIVE ParseDigits(_, _)
ParseDigits(s, acc) ==
    IF Len(s) = 0 THEN acc
    ELSE ParseDigits(SubSeq(s, 2, Len(s)), 10 * acc + Digit(SubSeq(s, 1, 1)))

\* int(s) for a decimal string with an optional sign
int(s) ==
    IF SubSeq(s, 1, 1) = "-" THEN 0 - ParseDigits(SubSeq(s, 2, Len(s)), 0)
    ELSE ParseDigits(s, 0)

\* A reading of a reported value that knows no sentinel
income_value_raw(v) == int(v)

\* int(item[0]) if item[0] != '-666666666' else 0
income_value(v) == IF v # "-666666666" THEN int(v) ELSE 0

\* Rows of the batch response: the value, the state, the county, the tract
IncomeValues == { "-666666666", "-222222222", "42000" }
IncomeRows ==
    { << v, "26", "163", t >> : v \in IncomeValues, t \in { "500100", "500200" } }
IncomeHeader == << "B19013_001E", "state", "county", "tract" >>

IncomeResponses ==
    { [ status_code |-> 200, json |-> << IncomeHeader >> \o rows ] :
        rows \in SeqsUpTo(IncomeRows, MaxRows) }
        \cup { [ status_code |-> 404, json |-> << >> ] }

\* The dict comprehension of line 267 over data[1:]: a key that comes twice
\* keeps the value of its last row
income_data_of(data) ==
    LET rows == SubSeq(data, 2, Len(data))
        keys == { rows[k][3] \o rows[k][4] : k \in 1..Len(rows) }
        lastRow(key) == CHOOSE k \in 1..Len(rows) :
                            /\ rows[k][3] \o rows[k][4] = key
                            /\ \A m \in (k+1)..Len(rows) :
                                   rows[m][3] \o rows[m][4] # key
    IN  [ key \in keys |-> income_value(rows[lastRow(key)][1]) ]

\* `district.censusTract in income_data`
TractIn(district, income_data) ==
    IsSet(district.censusTract) /\ Val(district.censusTract) \in DOMAIN income_data

\* Lines 266-275: the list after a success response was handled
AssignIncome(ds, data) ==
    LET income_data == income_data_of(data)
    IN  [ k \in 1..Len(ds) |->
            IF TractIn(ds[k], income_data)
            THEN [ ds[k] EXCEPT !.medIncome =
                       Some(income_data[Val(ds[k].censusTract)]) ]
            ELSE [ ds[k] EXCEPT !.medIncome = Some(0) ] ]

\* A failure branch that zeroes every income
IncomeOutcomeZeroOnFailure(ds, response) ==
    IF response.status_code = 200
    THEN AssignIncome(ds, response.json)
    ELSE [ k \in 1..Len(ds) |-> [ ds[k] EXCEPT !.medIncome = Some(0) ] ]

\* Lines 265-277: the list after the response was handled
IncomeOutcome(ds, response) ==
    IF response.status_code = 200
    THEN AssignIncome(ds, response.json)
    ELSE ds

fetchIncome(response) ==
    /\ pc = "idle"
    /\ districts' = IncomeOutcome(districts, response)
    /\ last' = Call("fetchIncome", "none", response, 1, FALSE, <<>>)
    /\ UNCHANGED <<rng, seeded, pc, i, prevRun>>

---------------------------------------------------------------------------
(* A new run of the program: the module is imported, which seeds the      *)
(* generator, and main builds an empty catalog.  What the run before      *)
(* sampled is remembered when its last call was the sampler.              *)

Points(ds) == [ k \in 1..Len(ds) |-> << ds[k].randomLong, ds[k].randomLat >> ]
Coordinates(ds) == [ k \in 1..Len(ds) |-> ds[k].coordinates ]

Rerun ==
    /\ pc = "idle"
    /\ last.op = "generateRandPoint"
    /\ prevRun' = Some([ coordinates |-> Coordinates(districts),
                         fromSeed |-> last.fromSeed,
                         points |-> Points(districts) ])
    /\ districts' = <<>>
    /\ rng' = random_seed(rng, Seed)
    /\ seeded' = TRUE
    /\ last' = Call("init", "none", NoResponse, 0, FALSE, <<>>)
    /\ UNCHANGED <<pc, i>>

---------------------------------------------------------------------------

Init ==
    /\ districts = <<>>
    /\ rng = random_seed(0, Seed)
    /\ seeded = TRUE
    /\ pc = "idle"
    /\ i = 0
    /\ last = Call("init", "none", NoResponse, 0, FALSE, <<>>)
    /\ prevRun = None

Next ==
    \/ \E features \in Files : createDistricts(features)
    \/ generateRandPoint
    \/ fetchCensusCall
    \/ \E response \in CensusResponses : fetchCensusRequest(response)
    \/ fetchCensusSkip
    \/ fetchCensusReturn
    \/ \E response \in IncomeResponses : fetchIncome(response)

Spec == Init /\ [][Next]_vars

\* The program run again and again
NextRerun ==
    \/ \E features \in Files : createDistricts(features)
    \/ generateRandPoint
    \/ Rerun

SpecRerun == Init /\ [][NextRerun]_vars

---------------------------------------------------------------------------
(* Properties *)

HasPoint(d) == IsSet(d.randomLat) /\ IsSet(d.randomLong)
Idx == 1..Len(districts)

\* C1: in fetchCensus the loop leaves a district that has a sampled point
\* only after a success status was observed for it, and the call returns
\* only then: a lookup that was answered with a failure is issued again.
C1_RetryUntilSuccess ==
    /\ (pc = "fetchCensus" /\ i > 1 /\ HasPoint(districts[i - 1]))
           => last.response.status_code = 200
    /\ (pc = "idle" /\ last.op = "fetchCensus" /\ last.n > 0)
           => last.response.status_code = 200

\* The number a reported value stands for
Reported(v) ==
    CASE v = "42000" -> 42000
      [] v = "-222222222" -> 0 - 222222222
      [] v = "-666666666" -> 0 - 666666666

\* The data rows of an income response whose county and tract make `tract`
RowsOf(data, tract) ==
    { m \in 2..Len(data) : data[m][3] \o data[m][4] = tract }
LastOf(S) == CHOOSE m \in S : \A n \in S : n <= m

C3_FailureKeepsIncome ==
    [][ (last'.op = "fetchIncome" /\ last'.response.status_code # 200)
            => (districts' = districts /\ last'.err = "none") ]_vars

C3_Witness ==
    /\ last.op = "fetchIncome" /\ last.response.status_code # 200
    /\ Len(districts) = 2
    /\ \A k \in Idx : districts[k].medIncome = None

\* Geometry, apart from the containment test of the model
Edges(ring) ==
    { << ring[k].v, ring[(k % Len(ring)) + 1].v >> : k \in 1..Len(ring) }
OnSegment(p, a, b) ==
    /\ (b[1] - a[1]) * (p[2] - a[2]) = (b[2] - a[2]) * (p[1] - a[1])
    /\ (a[1] <= p[1] /\ p[1] <= b[1]) \/ (b[1] <= p[1] /\ p[1] <= a[1])
    /\ (a[2] <= p[2] /\ p[2] <= b[2]) \/ (b[2] <= p[2] /\ p[2] <= a[2])
OnBoundary(ring, p) == \E e \in Edges(ring) : OnSegment(p, e[1], e[2])
\* The edge a-b passes strictly to the right of p, at the height of p
RightOf(p, a, b) ==
    /\ (a[2] > p[2]) # (b[2] > p[2])
    /\ IF b[2] > a[2]
       THEN (p[1] - a[1]) * (b[2] - a[2]) < (p[2] - a[2]) * (b[1] - a[1])
       ELSE (p[1] - a[1]) * (b[2] - a[2]) > (p[2] - a[2]) * (b[1] - a[1])
StrictlyInside(ring, p) ==
    /\ ~OnBoundary(ring, p)
    /\ Cardinality({ k \in 1..Len(ring) :
           RightOf(p, ring[k].v, ring[(k % Len(ring)) + 1].v) }) % 2 = 1

GridPoints == { points[k] : k \in 1..Len(points) }
PointOf(d) == << Val(d.randomLong), Val(d.randomLat) >>
IsRing(coordinates) == IsListOfPairs(coordinates) /\ Len(coordinates) > 0
StrictPoints(d) ==
    IF IsRing(d.coordinates)
    THEN { p \in GridPoints : StrictlyInside(d.coordinates, p) } ELSE {}
AcceptedPoints(d) ==
    IF IsRing(d.coordinates)
    THEN { p \in GridPoints : contains_point(d.coordinates, p) } ELSE {}

LacksKey(f) ==
    \/ "holc_grade" \notin DOMAIN f.properties
    \/ "holc_id" \notin DOMAIN f.properties
    \/ "area_description_data" \notin DOMAIN f.properties
    \/ "8" \notin DOMAIN f.properties.area_description_data
    \/ "coordinates" \notin DOMAIN f.geometry
FirstBad(file) ==
    IF \E k \in 1..Len(file) : LacksKey(file[k])
    THEN CHOOSE k \in 1..Len(file) :
             LacksKey(file[k]) /\ \A m \in 1..(k - 1) : ~LacksKey(file[m])
    ELSE Len(file) + 1

\* C6: createDistricts on a file with a feature that lacks a required key
\* raises, and adds a record for no feature from that one on: the records
\* it added are those of the features before it, each with the grade, the
\* id, the description and the coordinates its feature gives.
C6_MalformedFails ==
    [][ last'.op = "createDistricts" =>
          LET file == last'.arg
              bad == FirstBad(file)
              old == Len(districts)
          IN  /\ (bad <= Len(file)) <=> (last'.err = "KeyError")
              /\ (bad > Len(file)) <=> (last'.err = "none")
              /\ Len(districts') = old + bad - 1
              /\ \A k \in 1..(bad - 1) :
                     LET d == districts'[old + k]
                         f == file[k]
                     IN  /\ d.holcGrade = f.properties.holc_grade
                         /\ d.id = f.properties.holc_id
                         /\ d.description = f.properties.area_description_data["8"]
                         /\ d.coordinates = f.geometry.coordinates[1][1] ]_vars

C6_Witness ==
    /\ last.op = "createDistricts" /\ last.err = "KeyError"
    /\ Len(last.arg) = 2 /\ ~LacksKey(last.arg[1]) /\ LacksKey(last.arg[2])
    /\ Len(districts) = 1

\* C7: after a success response to fetchIncome every district's income is
\* a non-negative integer.
C7_IncomeNonNegative ==
    (last.op = "fetchIncome" /\ last.response.status_code = 200) =>
        \A k \in Idx :
            IsSet(districts[k].medIncome) /\ Val(districts[k].medIncome) >= 0

\* C8: the colour of every record is the colour of its grade: darkgreen
\* for A, cornflowerblue for B, gold for C, maroon for D and grey for any
\* other grade, in every state, whatever was called since the record was
\* made.
C8_ColorOfGrade ==
    \A k \in Idx :
        LET d == districts[k]
        IN  /\ d.holcGrade = "A" => d.holcColor = "darkgreen"
            /\ d.holcGrade = "B" => d.holcColor = "cornflowerblue"
            /\ d.holcGrade = "C" => d.holcColor = "gold"
            /\ d.holcGrade = "D" => d.holcColor = "maroon"
            /\ d.holcGrade \notin { "A", "B", "C", "D" } => d.holcColor = "grey"

C8_Witness ==
    /\ last.op = "fetchIncome" /\ last.response.status_code = 200
    /\ Len(districts) = 2
    /\ districts[1].holcGrade = "B" /\ IsSet(districts[1].censusTract)
    /\ districts[2].holcGrade = "E" /\ districts[2].holcColor = "grey"

Same(d, e, fields) == \A f \in fields : d[f] = e[f]
Loaded == { "coordinates", "holcGrade", "id", "description", "holcColor" }

\* C9: every step keeps the records there are, in their order, with their
\* loaded fields; only createDistricts adds records; generateRandPoint
\* changes only randomLong and randomLat, fetchCensus only censusTract,
\* fetchIncome only medIncome, and createDistricts changes no record.
C9_Frame ==
    [][ /\ Len(districts') >= Len(districts)
        /\ Len(districts') > Len(districts) => last'.op = "createDistricts"
        /\ \A k \in Idx :
               LET d == districts[k]
                   e == districts'[k]
               IN  /\ Same(d, e, Loaded)
                   /\ last'.op = "createDistricts" => e = d
                   /\ last'.op = "generateRandPoint" =>
                          Same(d, e, { "censusTract", "medIncome" })
                   /\ last'.op = "fetchCensus" =>
                          Same(d, e, { "randomLong", "randomLat", "medIncome" })
                   /\ last'.op = "fetchIncome" =>
                          Same(d, e, { "randomLong", "randomLat", "censusTract" })
      ]_vars

C9_Witness ==
    /\ pc = "fetchCensus" /\ last.n = 2
    /\ Len(districts) = 2
    /\ \A k \in Idx :
           /\ HasPoint(districts[k])
           /\ IsSet(districts[k].censusTract)
           /\ IsSet(districts[k].medIncome)

\* C10: in every state a district has a latitude exactly if it has a
\* longitude, and a census tract only if it has a sampled point; and
\* fetchCensus has issued one lookup for each district with a sampled
\* point that its loop has passed, and none for any other.
C10_PointBeforeTract ==
    /\ \A k \in Idx :
           /\ IsSet(districts[k].randomLat) <=> IsSet(districts[k].randomLong)
           /\ IsSet(districts[k].censusTract) => HasPoint(districts[k])
    /\ pc = "fetchCensus" =>
           last.n = Cardinality({ k \in Idx : k < i /\ HasPoint(districts[k]) })
    /\ (pc = "idle" /\ last.op = "fetchCensus") =>
           last.n = Cardinality({ k \in Idx : HasPoint(districts[k]) })

C10_Witness ==
    /\ pc = "idle" /\ last.op = "fetchCensus" /\ last.n = 1
    /\ Len(districts) = 2
    /\ ~HasPoint(districts[1]) /\ ~IsSet(districts[1].censusTract)
    /\ HasPoint(districts[2]) /\ IsSet(districts[2].censusTract)

====
